---- MODULE Spec2Model ----
(***************************************************************************)
(* A model of src/src/App.jsx, the single React component of the AI       *)
(* fitness coach: plan generation through the text oracle, the cached     *)
(* plan in localStorage, the daily quote effect, speech, PDF export and   *)
(* the expandable day / meal panels.                                      *)
(*                                                                         *)
(* JavaScript values are tagged records, one field name per type, so that *)
(* values of different types are always comparable:                       *)
(*   undefined [undef |-> TRUE]     null    [nul |-> TRUE]                *)
(*   boolean   [b |-> TRUE]         number  [n |-> 3]                     *)
(*   string    [s |-> "abc"]        array   [a |-> <<v1, v2>>]           *)
(*   object    [o |-> << <<"key", v>>, ... >>]  (insertion order kept)   *)
(*                                                                         *)
(* A text (an oracle response, a localStorage item holding JSON) is a     *)
(* sequence of tokens: single characters [c |-> "x"] and JSON literals    *)
(* [str |-> "abc"], [num |-> 3], [kw |-> "null"].                        *)
(***************************************************************************)
EXTENDS Integers, Sequences, FiniteSets, TLC

(***************************************************************************)
(* JavaScript values                                                       *)
(***************************************************************************)
Undefined == [undef |-> TRUE]
Null      == [nul |-> TRUE]
Bool(x)   == [b |-> x]
Num(x)    == [n |-> x]
Str(x)    == [s |-> x]
Arr(x)    == [a |-> x]
Obj(x)    == [o |-> x]

IsUndefined(v) == "undef" \in DOMAIN v
IsNull(v)      == "nul" \in DOMAIN v
IsBool(v)      == "b" \in DOMAIN v
IsNum(v)       == "n" \in DOMAIN v
IsStr(v)       == "s" \in DOMAIN v
IsArr(v)       == "a" \in DOMAIN v
IsObj(v)       == "o" \in DOMAIN v

\* v is null or undefined: reading a property of it throws a TypeError
Nullish(v) == IsUndefined(v) \/ IsNull(v)

\* JavaScript truthiness, as used by (cached ? ...), (plan ? ...), (x || y)
Truthy(v) ==
  /\ ~Nullish(v)
  /\ (IsBool(v) => v.b)
  /\ (IsNum(v) => v.n # 0)
  /\ (IsStr(v) => v.s # "")

\* x || y
OrElse(x, y) == IF Truthy(x) THEN x ELSE y

HasKey(entries, k) == \E i \in 1..Len(entries) : entries[i][1] = k

\* obj[k] = v on an object: an existing key keeps its position
SetKey(entries, k, v) ==
  IF HasKey(entries, k)
  THEN [i \in 1..Len(entries) |->
          IF entries[i][1] = k THEN <<k, v>> ELSE entries[i]]
  ELSE Append(entries, <<k, v>>)

\* v.k, for a v that is not null or undefined (optional chaining and the
\* callers test that first); a property that is not there reads undefined
Get(v, k) ==
  IF IsObj(v) /\ HasKey(v.o, k)
  THEN LET i == CHOOSE j \in 1..Len(v.o) : v.o[j][1] = k IN v.o[i][2]
  ELSE Undefined

\* v?.k
GetOpt(v, k) == IF Nullish(v) THEN Undefined ELSE Get(v, k)

(***************************************************************************)
(* Texts: JSON.stringify, JSON.parse, String.prototype.trim                *)
(***************************************************************************)
C(x)   == [c |-> x]
IsC(t, x) == "c" \in DOMAIN t /\ t.c = x
IsWs(t) == IsC(t, " ") \/ IsC(t, "\n")

RECURSIVE Stringify(_)
RECURSIVE StringifyElems(_)
RECURSIVE StringifyEntries(_)
\* JSON.stringify(v), v a value that JSON.parse produced
Stringify(v) ==
  CASE IsStr(v) -> << [str |-> v.s] >>
    [] IsNum(v) -> << [num |-> v.n] >>
    [] IsBool(v) -> << [kw |-> IF v.b THEN "true" ELSE "false"] >>
    [] IsArr(v) -> <<C("[")>> \o StringifyElems(v.a) \o <<C("]")>>
    [] IsObj(v) -> <<C("{")>> \o StringifyEntries(v.o) \o <<C("}")>>
    [] OTHER -> << [kw |-> "null"] >>

StringifyElems(vs) ==
  CASE vs = <<>> -> <<>>
    [] Len(vs) = 1 -> Stringify(vs[1])
    [] OTHER -> Stringify(Head(vs)) \o <<C(",")>> \o StringifyElems(Tail(vs))

StringifyEntries(es) ==
  CASE es = <<>> -> <<>>
    [] Len(es) = 1 -> << [str |-> es[1][1]], C(":") >> \o Stringify(es[1][2])
    [] OTHER -> << [str |-> Head(es)[1]], C(":") >> \o Stringify(Head(es)[2])
                  \o <<C(",")>> \o StringifyEntries(Tail(es))

RECURSIVE SkipWs(_, _)
\* the first position from i on that holds no whitespace (Len(t) + 1 if none)
SkipWs(t, i) ==
  IF i <= Len(t) /\ IsWs(t[i]) THEN SkipWs(t, i + 1) ELSE i

ParseFail == [ok |-> FALSE, v |-> Undefined, i |-> 0]
ParseOk(v, i) == [ok |-> TRUE, v |-> v, i |-> i]

\* the token at position i, a blank past the end
At(t, i) == IF i <= Len(t) THEN t[i] ELSE C(" ")

RECURSIVE ParseValue(_, _)
RECURSIVE ParseArr(_, _, _)
RECURSIVE ParseObj(_, _, _)
\* the value whose first token is at position j
ValueAt(t, j) ==
  CASE "str" \in DOMAIN At(t, j) -> ParseOk(Str(t[j].str), j + 1)
    [] "num" \in DOMAIN At(t, j) -> ParseOk(Num(t[j].num), j + 1)
    [] "kw" \in DOMAIN At(t, j) ->
         ParseOk(IF t[j].kw = "null" THEN Null ELSE Bool(t[j].kw = "true"), j + 1)
    [] IsC(At(t, j), "[") ->
         IF IsC(At(t, SkipWs(t, j + 1)), "]")
         THEN ParseOk(Arr(<<>>), SkipWs(t, j + 1) + 1)
         ELSE ParseArr(t, j + 1, <<>>)
    [] IsC(At(t, j), "{") ->
         IF IsC(At(t, SkipWs(t, j + 1)), "}")
         THEN ParseOk(Obj(<<>>), SkipWs(t, j + 1) + 1)
         ELSE ParseObj(t, j + 1, <<>>)
    [] OTHER -> ParseFail

\* one JSON value starting at or after position i; i is where it ended
ParseValue(t, i) == ValueAt(t, SkipWs(t, i))

\* the array after its element r
ArrAfter(t, r, acc) ==
  CASE ~r.ok -> ParseFail
    [] r.ok /\ IsC(At(t, SkipWs(t, r.i)), ",") ->
         ParseArr(t, SkipWs(t, r.i) + 1, Append(acc, r.v))
    [] r.ok /\ IsC(At(t, SkipWs(t, r.i)), "]") ->
         ParseOk(Arr(Append(acc, r.v)), SkipWs(t, r.i) + 1)
    [] OTHER -> ParseFail

\* the elements of an array from position i on, acc the ones read so far
ParseArr(t, i, acc) == ArrAfter(t, ParseValue(t, i), acc)

\* the object after its member key: r; a repeated key keeps its first
\* position and takes the last value
ObjAfter(t, key, r, acc) ==
  CASE ~r.ok -> ParseFail
    [] r.ok /\ IsC(At(t, SkipWs(t, r.i)), ",") ->
         ParseObj(t, SkipWs(t, r.i) + 1, SetKey(acc, key, r.v))
    [] r.ok /\ IsC(At(t, SkipWs(t, r.i)), "}") ->
         ParseOk(Obj(SetKey(acc, key, r.v)), SkipWs(t, r.i) + 1)
    [] OTHER -> ParseFail

\* the member whose key is at position j
MemberAt(t, j, acc) ==
  IF "str" \in DOMAIN At(t, j) /\ IsC(At(t, SkipWs(t, j + 1)), ":")
  THEN ObjAfter(t, t[j].str, ParseValue(t, SkipWs(t, j + 1) + 1), acc)
  ELSE ParseFail

\* the members of an object from position i on, acc the ones read so far
ParseObj(t, i, acc) == MemberAt(t, SkipWs(t, i), acc)

\* the parse r of the text t is the whole of it
WholeText(t, r) ==
  IF r.ok /\ SkipWs(t, r.i) > Len(t) THEN [ok |-> TRUE, v |-> r.v]
  ELSE [ok |-> FALSE, v |-> Undefined]

\* JSON.parse(t): ok is FALSE where it throws a SyntaxError
JSONParse(t) == WholeText(t, ParseValue(t, 1))

RECURSIVE TrimStart(_)
TrimStart(t) == IF t # <<>> /\ IsWs(Head(t)) THEN TrimStart(Tail(t)) ELSE t

RECURSIVE TrimEnd(_)
TrimEnd(t) ==
  IF t # <<>> /\ IsWs(t[Len(t)]) THEN TrimEnd(SubSeq(t, 1, Len(t) - 1)) ELSE t

\* String.prototype.trim
Trim(t) == TrimEnd(TrimStart(t))

\* The fence-stripping step of generatePlan, a replace of every match of the
\* pattern  ^FENCEjson\s*  or  \s*FENCE$  (FENCE: three backticks) by the empty
\* string.
\* the backtick character (the lexer of TLA+ does not take one in a string)
Backtick == C("backtick")
Fence == <<Backtick, Backtick, Backtick>>
JsonTag == <<C("j"), C("s"), C("o"), C("n")>>

StartsWith(t, p) == Len(t) >= Len(p) /\ SubSeq(t, 1, Len(p)) = p
EndsWith(t, p) == Len(t) >= Len(p) /\ SubSeq(t, Len(t) - Len(p) + 1, Len(t)) = p

\* first alternative, ^FENCEjson\s* : matches at position 0 only
StripHead(t) ==
  IF StartsWith(t, Fence \o JsonTag)
  THEN TrimStart(SubSeq(t, Len(Fence \o JsonTag) + 1, Len(t)))
  ELSE t

\* second alternative, \s*FENCE$ : the leftmost match takes the whole run of
\* whitespace before the closing fence
StripTail(t) ==
  IF EndsWith(t, Fence) THEN TrimEnd(SubSeq(t, 1, Len(t) - Len(Fence))) ELSE t

Clean(raw) == StripTail(StripHead(raw))


(***************************************************************************)
(* The oracle's answers. The text oracle is opaque: a request ends in a    *)
(* transport failure or in a response text, any of PlanResponses.          *)
(***************************************************************************)
Exercise(name, sets, reps, rest) ==
  Obj(<< <<"name", Str(name)>>, <<"sets", Str(sets)>>,
         <<"reps", Str(reps)>>, <<"rest", Str(rest)>> >>)

DayEntry(day, focus, exercises) ==
  Obj(<< <<"day", Str(day)>>, <<"focus", Str(focus)>>,
         <<"exercises", Arr(exercises)>> >>)

PlanOf(quote, workout, diet, tips) ==
  Obj(<< <<"motivationalQuote", Str(quote)>>, <<"workoutPlan", workout>>,
         <<"dietPlan", diet>>, <<"lifestyleTips", Arr(tips)>> >>)

\* a food item wider than the 515pt text column of the exported document
\* (some 150 characters; about 95 of 12pt Helvetica fit the column)
LongItem ==
  "Grilled chicken breast with brown rice, steamed broccoli, carrots and green beans, a mixed side salad with olive oil dressing and a large glass of water"

BenchPress == Exercise("Bench Press", "3", "12", "60s")

\* the plan of the spec's scenario: one day, one exercise, the four meal
\* slots the prompt asks for
PlanAlex ==
  PlanOf("Keep going",
    Obj(<< <<"overview", Str("Push day")>>,
           <<"days", Arr(<<DayEntry("Day 1", "Chest", <<BenchPress>>)>>)>> >>),
    Obj(<< <<"overview", Str("High protein")>>,
           <<"meals", Obj(<< <<"breakfast", Arr(<<Str("Oatmeal"), Str("Protein shake")>>)>>,
                             <<"lunch", Arr(<<Str("Brown rice")>>)>>,
                             <<"dinner", Arr(<<Str("Salmon")>>)>>,
                             <<"snacks", Arr(<<Str("Nuts")>>)>> >>)>> >>),
    <<Str("Sleep 8 hours")>>)

\* a plan with two days, the meal slots in another order, a slot the prompt
\* did not name and an item wider than the page
PlanWide ==
  PlanOf("Stay hungry",
    Obj(<< <<"overview", Str("Full body")>>,
           <<"days", Arr(<<DayEntry("Day 1", "Legs",
                             <<Exercise("Squat", "4", "8", "90s"),
                               Exercise("Lunge", "3", "10", "60s")>>),
                           DayEntry("Day 2", "Back",
                             <<Exercise("Row", "3", "12", "60s")>>)>>)>> >>),
    Obj(<< <<"overview", Str("Balanced")>>,
           <<"meals", Obj(<< <<"dinner", Arr(<<Str(LongItem)>>)>>,
                             <<"breakfast", Arr(<<Str("Oatmeal")>>)>>,
                             <<"brunch", Arr(<<Str("Eggs")>>)>> >>)>> >>),
    <<Str("Drink water"), Str("Walk daily")>>)

\* parseable JSON without the workoutPlan field
PlanNoWorkout ==
  Obj(<< <<"motivationalQuote", Str("Keep going")>>,
         <<"dietPlan", Obj(<< <<"overview", Str("High protein")>>,
                              <<"meals", Obj(<< <<"lunch", Arr(<<Str("Brown rice")>>)>> >>)>> >>)>>,
         <<"lifestyleTips", Arr(<<>>)>> >>)

\* parseable JSON whose dietPlan has no meals field
PlanNoMeals ==
  PlanOf("Keep going",
    Obj(<< <<"overview", Str("Push day")>>,
           <<"days", Arr(<<DayEntry("Day 1", "Chest", <<BenchPress>>)>>)>> >>),
    Obj(<< <<"overview", Str("High protein")>> >>),
    <<Str("Sleep 8 hours")>>)

\* parseable JSON whose only day has no exercises field
PlanNoExercises ==
  PlanOf("Keep going",
    Obj(<< <<"overview", Str("Push day")>>,
           <<"days", Arr(<<Obj(<< <<"day", Str("Day 1")>>, <<"focus", Str("Rest")>> >>)>>)>> >>),
    Obj(<< <<"overview", Str("High protein")>>,
           <<"meals", Obj(<< <<"lunch", Arr(<<Str("Brown rice")>>)>> >>)>> >>),
    <<>>)

\* the ways a response wraps its JSON text t
FencedJson(t)    == Fence \o JsonTag \o <<C("\n")>> \o t \o <<C("\n")>> \o Fence
FencedJsonWs(t)  == <<C("\n")>> \o Fence \o JsonTag \o <<C(" "), C("\n")>> \o t
                      \o <<C("\n"), C("\n")>> \o Fence \o <<C("\n")>>
FencedJsonTight(t) == Fence \o JsonTag \o t \o Fence
FencedPlain(t)   == Fence \o <<C("\n")>> \o t \o <<C("\n")>> \o Fence
FencedPlainWs(t) == <<C(" ")>> \o Fence \o <<C("\n")>> \o t \o <<C("\n")>> \o Fence \o <<C(" ")>>

\* JSON text as the oracle may lay it out, whitespace between the tokens
Spaced(t) == <<C(" ")>> \o t \o <<C("\n")>>

\* a response cut off after its first token: not JSON
Truncated(t) == SubSeq(t, 1, 1)

\* every fenced response, with the JSON text it wraps
FencedCases ==
  { [body |-> b, text |-> FencedJson(b)]      : b \in {Stringify(PlanAlex), Stringify(PlanWide)} }
    \cup { [body |-> b, text |-> FencedJsonWs(b)]    : b \in {Stringify(PlanAlex)} }
    \cup { [body |-> b, text |-> FencedJsonTight(b)] : b \in {Stringify(PlanWide)} }
    \cup { [body |-> b, text |-> FencedPlain(b)]     : b \in {Stringify(PlanAlex)} }
    \cup { [body |-> b, text |-> FencedPlainWs(b)]   : b \in {Stringify(PlanWide)} }

PlanResponses ==
  { Stringify(PlanAlex), Spaced(Stringify(PlanWide)),
    Stringify(PlanNoWorkout), Stringify(PlanNoMeals), Stringify(PlanNoExercises),
    Stringify(Null), Stringify(Num(0)),
    Truncated(Stringify(PlanAlex)), <<>> }
    \cup { f.text : f \in FencedCases }


(***************************************************************************)
(* Rendering. React unmounts the whole tree when render throws and no      *)
(* error boundary catches it; App has none.                                *)
(***************************************************************************)
RECURSIVE ChildOk(_)
\* {v} as a React child: a plain object throws, an array renders its elements
ChildOk(v) ==
  IF IsObj(v) THEN FALSE
  ELSE IF IsArr(v) THEN \A i \in 1..Len(v.a) : ChildOk(v.a[i])
  ELSE TRUE

\* String(i) for the indices of a short array
IdxKey(i) == <<"0", "1", "2", "3", "4", "5", "6", "7">>[i + 1]

\* Object.entries(v) for a v that is not null or undefined (strings are
\* atomic here, so a string has no entries)
Entries(v) ==
  IF IsObj(v) THEN v.o
  ELSE IF IsArr(v) THEN [i \in 1..Len(v.a) |-> <<IdxKey(i - 1), v.a[i]>>]
  ELSE <<>>

\* no "expanded" value
NullIdx == -1
NullMeal == "<null>"

\* one exercise row of an expanded day
ExerciseRowOk(ex) ==
  /\ ~Nullish(ex)
  /\ \A f \in {"name", "sets", "reps", "rest"} : ChildOk(Get(ex, f))

\* expandedDay === idx && (...), expandedMeal === meal && (...): the panel
\* shows its rows
DayExpanded(eDay, idx) == eDay = idx
MealExpanded(eMeal, meal) == eMeal = meal

\* the panel of the day at index idx
DayPanelOk(day, idx, eDay) ==
  /\ ~Nullish(day)
  /\ ChildOk(Get(day, "day")) /\ ChildOk(Get(day, "focus"))
  /\ (DayExpanded(eDay, idx) =>
        /\ IsArr(Get(day, "exercises"))
        /\ \A i \in 1..Len(Get(day, "exercises").a) :
              ExerciseRowOk(Get(day, "exercises").a[i]))

\* the panel of one meal slot
MealPanelOk(entry, eMeal) ==
  MealExpanded(eMeal, entry[1]) =>
    /\ IsArr(entry[2])
    /\ \A i \in 1..Len(entry[2].a) : ChildOk(entry[2].a[i])

\* the plan view renders without throwing
PlanViewOk(p, eDay, eMeal) ==
  LET wp == Get(p, "workoutPlan")
      dp == Get(p, "dietPlan")
      tips == Get(p, "lifestyleTips")
  IN
  /\ ChildOk(Get(p, "motivationalQuote"))
  /\ ~Nullish(wp)
  /\ ChildOk(Get(wp, "overview"))
  /\ IsArr(Get(wp, "days"))
  /\ \A i \in 1..Len(Get(wp, "days").a) : DayPanelOk(Get(wp, "days").a[i], i - 1, eDay)
  /\ ~Nullish(dp)
  /\ ChildOk(Get(dp, "overview"))
  /\ ~Nullish(Get(dp, "meals"))
  /\ \A i \in 1..Len(Entries(Get(dp, "meals"))) :
        MealPanelOk(Entries(Get(dp, "meals"))[i], eMeal)
  /\ IsArr(tips)
  /\ \A i \in 1..Len(tips.a) : ChildOk(tips.a[i])

\* which of the two views the render shows: the form, the plan, or neither
PlanShown(p, step) == step = "plan" /\ Truthy(p)
FormShown(step) == step = "form"

RenderThrows(p, step, eDay, eMeal) ==
  PlanShown(p, step) /\ ~PlanViewOk(p, eDay, eMeal)

(***************************************************************************)
(* exportPDF. A text is the sequence of the values a template string      *)
(* joins; the document is the sequence of the lines doc.text has written. *)
(***************************************************************************)
Margin == 40
PageBottom == 780
ColumnWidth == 515
LineGap == 4
ParagraphGap == 6

\* the width of a text in points: only LongItem is wider than the column
PartWidth(v) == IF v = Str(LongItem) THEN 2 * ColumnWidth - Margin ELSE Margin

RECURSIVE TextWidth(_)
TextWidth(txt) ==
  IF txt = <<>> THEN 0 ELSE PartWidth(Head(txt)) + TextWidth(Tail(txt))

\* doc.splitTextToSize(txt, 515): how many lines the text wraps to
SplitTextToSize(txt) ==
  LET w == TextWidth(txt) IN
  IF w <= ColumnWidth THEN 1 ELSE (w + ColumnWidth - 1) \div ColumnWidth

\* one addLine(txt, fontSize, bold) call
Para(txt, fontSize, bold) == [txt |-> txt, fontSize |-> fontSize, bold |-> bold]

\* day.exercises.forEach: the addLine calls of one day's exercises
ExerciseParas(exs) ==
  [i \in 1..Len(exs) |->
     Para(<<Str("* "), Get(exs[i], "name"), Str(": "), Get(exs[i], "sets"),
            Str(" sets x "), Get(exs[i], "reps"), Str(" reps (Rest: "),
            Get(exs[i], "rest"), Str(")")>>, 12, FALSE)]

RECURSIVE DayParas(_)
\* plan.workoutPlan.days.forEach: each day's heading, then its exercises
DayParas(days) ==
  IF days = <<>> THEN <<>>
  ELSE <<Para(<<Get(Head(days), "day"), Str(" - "), Get(Head(days), "focus")>>, 12, TRUE)>>
         \o ExerciseParas(Get(Head(days), "exercises").a)
         \o DayParas(Tail(days))

\* m.slot || []
SlotItems(m, slot) == OrElse(Get(m, slot), Arr(<<>>))

\* mealBlock(title, arr)
MealBlock(title, arr) ==
  <<Para(<<Str(title)>>, 12, TRUE)>>
    \o [i \in 1..Len(arr.a) |-> Para(<<Str("* "), arr.a[i]>>, 12, FALSE)]

\* the meal blocks of exportPDF, in the order the code writes them
MealBlocks(m) ==
  MealBlock("Breakfast", SlotItems(m, "breakfast"))
    \o MealBlock("Lunch", SlotItems(m, "lunch"))
    \o MealBlock("Dinner", SlotItems(m, "dinner"))
    \o MealBlock("Snacks", SlotItems(m, "snacks"))

\* (plan.lifestyleTips || []).forEach
TipParas(tips) ==
  [i \in 1..Len(tips) |-> Para(<<Num(i), Str(". "), tips[i]>>, 12, FALSE)]

\* the addLine calls of exportPDF for plan p, in order
ExportParas(p, name, date) ==
  << Para(<<Str("AI FITNESS COACH - PERSONALIZED PLAN")>>, 16, TRUE),
     Para(<<Str("Generated for: "), OrElse(Str(name), Str("Anonymous"))>>, 12, FALSE),
     Para(<<Str("Date: "), Num(date)>>, 12, FALSE),
     Para(<<Str(" ")>>, 12, FALSE),
     Para(<<Str("MOTIVATIONAL QUOTE")>>, 14, TRUE),
     Para(<<Get(p, "motivationalQuote")>>, 12, FALSE),
     Para(<<Str("WORKOUT PLAN")>>, 14, TRUE),
     Para(<<Get(Get(p, "workoutPlan"), "overview")>>, 12, FALSE) >>
    \o DayParas(Get(Get(p, "workoutPlan"), "days").a)
    \o << Para(<<Str("DIET PLAN")>>, 14, TRUE),
          Para(<<Get(Get(p, "dietPlan"), "overview")>>, 12, FALSE) >>
    \o MealBlocks(Get(Get(p, "dietPlan"), "meals"))
    \o << Para(<<Str("LIFESTYLE TIPS")>>, 14, TRUE) >>
    \o TipParas(OrElse(Get(p, "lifestyleTips"), Arr(<<>>)).a)

\* if (y > 780) { doc.addPage(); y = margin; }
CursorAt(y) == IF y > PageBottom THEN Margin ELSE y
PageAt(y, page) == IF y > PageBottom THEN page + 1 ELSE page

\* k is the last piece of the wrapped text of call para
LastPiece(para, k) == k >= SplitTextToSize(para.txt)

RECURSIVE AddLines(_, _, _, _, _)
\* addLine over the calls paras[i..], from piece k of call i on: each piece is
\* put at the cursor y of the page, on a new page once y > 780, and moves the
\* cursor by fontSize + 4; the last piece of a call moves it 6 further
AddLines(paras, i, k, y, page) ==
  IF i > Len(paras) THEN <<>>
  ELSE << [txt |-> paras[i].txt, piece |-> k, page |-> PageAt(y, page), y |-> CursorAt(y),
           fontSize |-> paras[i].fontSize, bold |-> paras[i].bold] >>
         \o AddLines(paras,
                     IF LastPiece(paras[i], k) THEN i + 1 ELSE i,
                     IF LastPiece(paras[i], k) THEN 1 ELSE k + 1,
                     CursorAt(y) + paras[i].fontSize + LineGap
                       + (IF LastPiece(paras[i], k) THEN ParagraphGap ELSE 0),
                     PageAt(y, page))

\* exportPDF throws a TypeError before doc.save
ExportThrows(p) ==
  LET wp == Get(p, "workoutPlan")
      dp == Get(p, "dietPlan")
      days == Get(wp, "days")
      m == Get(dp, "meals")
  IN
  \/ Nullish(wp)
  \/ ~IsArr(days)
  \/ \E i \in 1..Len(days.a) :
        \/ Nullish(days.a[i])
        \/ ~IsArr(Get(days.a[i], "exercises"))
        \/ \E j \in 1..Len(Get(days.a[i], "exercises").a) :
              Nullish(Get(days.a[i], "exercises").a[j])
  \/ Nullish(dp)
  \/ Nullish(m)
  \/ \E slot \in {"breakfast", "lunch", "dinner", "snacks"} : ~IsArr(SlotItems(m, slot))
  \/ ~IsArr(OrElse(Get(p, "lifestyleTips"), Arr(<<>>)))

\* the lines of the document exportPDF saves for plan p, form name and date
ExportDoc(p, name, date) == AddLines(ExportParas(p, name, date), 1, 1, Margin, 1)

(***************************************************************************)
(* The state of App                                                        *)
(***************************************************************************)
VARIABLES
  localStorage,   \* the persisted items: fitness_plan, daily_quote, daily_quote_date,
                  \* gemini_api, eleven_key
  plan,           \* useState: the parsed plan, or null
  currentStep,    \* useState: "form" or "plan"
  expandedDay,    \* useState: the index of the expanded day, or NullIdx
  expandedMeal,   \* useState: the name of the expanded meal slot, or NullMeal
  loading,        \* useState: a plan is being generated
  apiKey,         \* useState: the text-generation credential
  elevenKey,      \* useState: the remote speech credential
  dailyQuote,     \* useState
  quoteLoading,   \* useState
  ttsLoading,     \* useState
  audioBlobUrl,   \* useState: what the audio element plays, "none" at first
  isPlaying,      \* useState
  formData,       \* useState: the form record (the fields name and fitnessGoal)
  mounted,        \* the component tree is mounted (render has not thrown)
  planPending,    \* plan requests sent to the text oracle and not yet answered
  quotePending,   \* quote requests sent to the text oracle and not yet answered
  ttsPending,     \* remote speech requests not yet answered, each with its text
  today,          \* the calendar day, new Date().toLocaleDateString()
  autoQuotes,     \* quote requests the effect has issued on the day today
  imageLoading,   \* useState: the "Generating image..." overlay is shown
  selectedImage,  \* useState: null, or the { name, dataUrl } the modal shows
  imagePending,   \* image requests not yet answered, in the order of their issue
  imageIssued,    \* how many image requests this page has issued
  out             \* the last handler run and what it showed the user: alert,
                  \* document, speech

vars == <<localStorage, plan, currentStep, expandedDay, expandedMeal, loading, apiKey,
          elevenKey, dailyQuote, quoteLoading, ttsLoading, audioBlobUrl, isPlaying,
          formData, mounted, planPending, quotePending, ttsPending, today, autoQuotes,
          imageLoading, selectedImage, imagePending, imageIssued, out>>

\* the state of generateImage
imageVars == <<imageLoading, selectedImage, imagePending, imageIssued>>

\* bounds of the model
MaxPending == 2
MaxAutoQuotes == 2
MaxDay == 2
MaxImages == 2

ApiKeys == {"", "AIza"}
ElevenKeys == {"", "sk_eleven"}
FormNames == {"", "Alex"}
FormGoals == {"weight_loss", "muscle_gain"}
\* the texts the oracle answers a quote request with (trim changes none of them)
QuoteTexts == {"", "Push harder today"}
\* how a remote speech request ends
SpeechOutcomes == {"audio", "http_error", "network_error"}

DefaultQuote == "Stay strong and consistent!"
FallbackQuote == "Stay consistent!"
NoDate == 0

NoItem == [has |-> FALSE, text |-> <<>>]
Item(t) == [has |-> TRUE, text |-> t]

EmptyStorage ==
  [fitness_plan |-> NoItem, daily_quote |-> "", daily_quote_date |-> NoDate,
   gemini_api |-> "", eleven_key |-> ""]

InitialForm == [name |-> "", fitnessGoal |-> "weight_loss"]

Quiet == [op |-> "none"]

Bump(n, max) == IF n < max THEN n + 1 ELSE n

\* try { return JSON.parse(..) } catch { return d }
ParsedOr(r, d) == IF r.ok THEN r.v ELSE d

\* an initialiser that never reads the cache
CachedPlanNone(ls) == Null

\* the initial value of plan: the cached item parsed, null if there is none or
\* JSON.parse throws
CachedPlan(ls) ==
  IF ls.fitness_plan.has /\ ls.fitness_plan.text # <<>>
  THEN ParsedOr(JSONParse(ls.fitness_plan.text), Null)
  ELSE Null

\* the initial value of currentStep
FirstStep(p) == IF Truthy(p) THEN "plan" ELSE "form"

\* the effect on [apiKey]: a quote is due
QuoteDue(ls, key, day) == ls.daily_quote_date # day /\ key # ""

\* the state after the first render and the effect on [apiKey] that follows
\* it (effects run only if the render has not thrown): p is the initial plan,
\* m whether the render went through
FreshState(ls, p, m, day, autos) ==
  [plan |-> p,
   currentStep |-> FirstStep(p),
   apiKey |-> ls.gemini_api,
   elevenKey |-> ls.eleven_key,
   dailyQuote |-> IF ls.daily_quote # "" THEN ls.daily_quote ELSE DefaultQuote,
   quoteLoading |-> m /\ QuoteDue(ls, ls.gemini_api, day),
   mounted |-> m,
   quotePending |-> IF m /\ QuoteDue(ls, ls.gemini_api, day) THEN 1 ELSE 0,
   autoQuotes |-> IF m /\ QuoteDue(ls, ls.gemini_api, day)
                  THEN Bump(autos, MaxAutoQuotes) ELSE autos]

\* the first render, of the initial plan p in its first step, nothing expanded
FirstRender(ls, p, day, autos) ==
  FreshState(ls, p, ~RenderThrows(p, FirstStep(p), NullIdx, NullMeal), day, autos)

\* the useState initialisers of App over the storage ls
Fresh(ls, day, autos) == FirstRender(ls, CachedPlan(ls), day, autos)

\* what an earlier visit can have left in the storage: nothing; the key saved
\* and today's quote fetched; and, with those, a plan cached
KeySaved ==
  [EmptyStorage EXCEPT !.gemini_api = "AIza", !.daily_quote = "Push harder today",
                       !.daily_quote_date = 1]
PlanCached == [KeySaved EXCEPT !.fitness_plan = Item(Stringify(PlanAlex))]
InitStorages == {EmptyStorage, KeySaved, PlanCached}

\* the component starts in the state f
StartsIn(f) ==
  /\ plan = f.plan
  /\ currentStep = f.currentStep
  /\ expandedDay = NullIdx
  /\ expandedMeal = NullMeal
  /\ loading = FALSE
  /\ apiKey = f.apiKey
  /\ elevenKey = f.elevenKey
  /\ dailyQuote = f.dailyQuote
  /\ quoteLoading = f.quoteLoading
  /\ ttsLoading = FALSE
  /\ audioBlobUrl = "none"
  /\ isPlaying = FALSE
  /\ formData = InitialForm
  /\ mounted = f.mounted
  /\ planPending = 0
  /\ quotePending = f.quotePending
  /\ ttsPending = <<>>
  /\ autoQuotes = f.autoQuotes
  /\ imageLoading = FALSE
  /\ selectedImage = Null
  /\ imagePending = <<>>
  /\ imageIssued = 0
  /\ out = Quiet

\* the page is loaded on day 1 over one of these storages
Init ==
  /\ localStorage \in InitStorages
  /\ today = 1
  /\ StartsIn(Fresh(localStorage, 1, 0))

\* the component is constructed anew in the state f
RestartsIn(f) ==
  /\ plan' = f.plan
  /\ currentStep' = f.currentStep
  /\ expandedDay' = NullIdx
  /\ expandedMeal' = NullMeal
  /\ loading' = FALSE
  /\ apiKey' = f.apiKey
  /\ elevenKey' = f.elevenKey
  /\ dailyQuote' = f.dailyQuote
  /\ quoteLoading' = f.quoteLoading
  /\ ttsLoading' = FALSE
  /\ audioBlobUrl' = "none"
  /\ isPlaying' = FALSE
  /\ formData' = InitialForm
  /\ mounted' = f.mounted
  /\ planPending' = 0
  /\ quotePending' = f.quotePending
  /\ ttsPending' = <<>>
  /\ autoQuotes' = f.autoQuotes
  /\ imageLoading' = FALSE
  /\ selectedImage' = Null
  /\ imagePending' = <<>>
  /\ imageIssued' = 0
  /\ out' = [op |-> "reload"]

\* the page is loaded again: the component is constructed over the storage as
\* it is, and the requests of the old page are never answered
Reload ==
  /\ RestartsIn(Fresh(localStorage, today, autoQuotes))
  /\ UNCHANGED <<localStorage, today>>

(***************************************************************************)
(* Handlers. A state setter does nothing once the tree is unmounted; an   *)
(* event handler runs only while its control is on the page.               *)
(***************************************************************************)
\* mounted after a render of the new state
StillMounted(p, step, eDay, eMeal) == mounted /\ ~RenderThrows(p, step, eDay, eMeal)

\* onChange of a form field
OnChange(field, value) ==
  /\ mounted /\ FormShown(currentStep)
  /\ formData[field] # value
  /\ formData' = [formData EXCEPT ![field] = value]
  /\ out' = Quiet
  /\ UNCHANGED imageVars
  /\ UNCHANGED <<localStorage, plan, currentStep, expandedDay, expandedMeal, loading,
                 apiKey, elevenKey, dailyQuote, quoteLoading, ttsLoading, audioBlobUrl,
                 isPlaying, mounted, planPending, quotePending, ttsPending, today,
                 autoQuotes>>

\* onChange of the Gemini key input, and the effect on [apiKey] that follows
\* the render: generateDailyQuote when the date marker is not today's
SetApiKey(k) ==
  /\ mounted
  /\ k # apiKey
  /\ apiKey' = k
  /\ IF QuoteDue(localStorage, k, today)
     THEN /\ quotePending < MaxPending
          /\ quoteLoading' = TRUE
          /\ quotePending' = quotePending + 1
          /\ autoQuotes' = Bump(autoQuotes, MaxAutoQuotes)
     ELSE UNCHANGED <<quoteLoading, quotePending, autoQuotes>>
  /\ out' = Quiet
  /\ UNCHANGED imageVars
  /\ UNCHANGED <<localStorage, plan, currentStep, expandedDay, expandedMeal, loading,
                 elevenKey, dailyQuote, ttsLoading, audioBlobUrl, isPlaying, formData,
                 mounted, planPending, ttsPending, today>>

\* onChange of the ElevenLabs key input
SetElevenKey(k) ==
  /\ mounted
  /\ k # elevenKey
  /\ elevenKey' = k
  /\ out' = Quiet
  /\ UNCHANGED imageVars
  /\ UNCHANGED <<localStorage, plan, currentStep, expandedDay, expandedMeal, loading,
                 apiKey, dailyQuote, quoteLoading, ttsLoading, audioBlobUrl, isPlaying,
                 formData, mounted, planPending, quotePending, ttsPending, today,
                 autoQuotes>>

SaveKeys ==
  /\ mounted
  /\ localStorage' = [localStorage EXCEPT !.gemini_api = apiKey, !.eleven_key = elevenKey]
  /\ out' = [op |-> "saveKeys", alert |-> "API keys saved locally."]
  /\ UNCHANGED imageVars
  /\ UNCHANGED <<plan, currentStep, expandedDay, expandedMeal, loading, apiKey, elevenKey,
                 dailyQuote, quoteLoading, ttsLoading, audioBlobUrl, isPlaying, formData,
                 mounted, planPending, quotePending, ttsPending, today, autoQuotes>>

\* a handler that returns at once whatever the key
NoCredentialNever(key) == FALSE

\* if (!apiKey) return alert(...)
NoCredential(key) == key = ""

\* a button that is never disabled
GenerateDisabledNever(l) == FALSE

\* disabled={loading} of the "Generate My AI Plan" button
GenerateDisabled(l) == l

\* generatePlan up to its await: the click on "Generate My AI Plan", a button
\* of the form that is disabled while loading
GeneratePlan ==
  /\ mounted /\ FormShown(currentStep)
  /\ ~GenerateDisabled(loading)
  /\ IF NoCredential(apiKey)
     THEN /\ out' = [op |-> "generatePlan", alert |-> "Enter your Gemini API key first!"]
          /\ UNCHANGED <<loading, planPending>>
     ELSE /\ planPending < MaxPending
          /\ loading' = TRUE
          /\ planPending' = planPending + 1
          /\ out' = [op |-> "generatePlan", alert |-> ""]
  /\ UNCHANGED imageVars
  /\ UNCHANGED <<localStorage, plan, currentStep, expandedDay, expandedMeal, apiKey,
                 elevenKey, dailyQuote, quoteLoading, ttsLoading, audioBlobUrl, isPlaying,
                 formData, mounted, quotePending, ttsPending, today, autoQuotes>>

\* a parse that swallows the SyntaxError and answers an empty object
ParseLenient(text) == [ok |-> TRUE, v |-> ParsedOr(JSONParse(Clean(Trim(text))), Obj(<<>>))]

\* res?.candidates?.[0]?.content?.parts?.[0]?.text?.trim() || "", cleaned
\* and parsed
ParseResponse(text) == JSONParse(Clean(Trim(text)))

\* generatePlan from its await on, the request ending in a transport failure
PlanRequestFails ==
  /\ planPending > 0
  /\ planPending' = planPending - 1
  /\ loading' = (IF mounted THEN FALSE ELSE loading)
  /\ out' = [op |-> "planResponse", transport |-> TRUE, resp |-> <<>>,
             alert |-> "Failed to generate plan"]
  /\ UNCHANGED imageVars
  /\ UNCHANGED <<localStorage, plan, currentStep, expandedDay, expandedMeal, apiKey,
                 elevenKey, dailyQuote, quoteLoading, ttsLoading, audioBlobUrl, isPlaying,
                 formData, mounted, quotePending, ttsPending, today, autoQuotes>>

\* the three effects without the setItem
StorePlanUnsaved(json) ==
  /\ plan' = (IF mounted THEN json ELSE plan)
  /\ UNCHANGED localStorage
  /\ currentStep' = (IF mounted THEN "plan" ELSE currentStep)

\* setPlan(json); localStorage.setItem("fitness_plan", JSON.stringify(json));
\* setCurrentStep("plan")
StorePlan(json) ==
  /\ plan' = (IF mounted THEN json ELSE plan)
  /\ localStorage' = [localStorage EXCEPT !.fitness_plan = Item(Stringify(json))]
  /\ currentStep' = (IF mounted THEN "plan" ELSE currentStep)

\* the try block after JSON.parse(clean) with the result r, and the catch
Parsed(text, r) ==
  IF r.ok
  THEN /\ StorePlan(r.v)
       /\ out' = [op |-> "planResponse", transport |-> FALSE, resp |-> text, alert |-> ""]
  ELSE /\ UNCHANGED <<plan, localStorage, currentStep>>
       /\ out' = [op |-> "planResponse", transport |-> FALSE, resp |-> text,
                  alert |-> "Failed to generate plan"]

\* generatePlan from its await on, the oracle answering with text
PlanResponse(text) ==
  /\ planPending > 0
  /\ planPending' = planPending - 1
  /\ Parsed(text, ParseResponse(text))
  /\ loading' = (IF mounted THEN FALSE ELSE loading)
  /\ mounted' = StillMounted(plan', currentStep', expandedDay, expandedMeal)
  /\ UNCHANGED imageVars
  /\ UNCHANGED <<expandedDay, expandedMeal, apiKey, elevenKey, dailyQuote, quoteLoading,
                 ttsLoading, audioBlobUrl, isPlaying, formData, quotePending, ttsPending,
                 today, autoQuotes>>

\* the Regenerate button of the plan view
Regenerate ==
  /\ mounted /\ PlanShown(plan, currentStep)
  /\ localStorage' = [localStorage EXCEPT !.fitness_plan = NoItem]
  /\ plan' = Null
  /\ currentStep' = "form"
  /\ out' = Quiet
  /\ UNCHANGED imageVars
  /\ UNCHANGED <<expandedDay, expandedMeal, loading, apiKey, elevenKey, dailyQuote,
                 quoteLoading, ttsLoading, audioBlobUrl, isPlaying, formData, mounted,
                 planPending, quotePending, ttsPending, today, autoQuotes>>

\* a toggle that never collapses
ToggledDayOpen(cur, idx) == idx

\* expandedDay === idx ? null : idx
ToggledDay(cur, idx) == IF cur = idx THEN NullIdx ELSE idx

\* expandedMeal === meal ? null : meal
ToggledMeal(cur, meal) == IF cur = meal THEN NullMeal ELSE meal

\* the indices of the day panels on the page
DayIndices == { i - 1 : i \in 1..Len(Get(Get(plan, "workoutPlan"), "days").a) }

\* the names of the meal panels on the page
MealNames ==
  LET es == Entries(Get(Get(plan, "dietPlan"), "meals")) IN { es[i][1] : i \in 1..Len(es) }

\* the click on the header of the day panel idx
ToggleDay(idx) ==
  /\ mounted /\ PlanShown(plan, currentStep)
  /\ idx \in DayIndices
  /\ expandedDay' = ToggledDay(expandedDay, idx)
  /\ mounted' = StillMounted(plan, currentStep, expandedDay', expandedMeal)
  /\ out' = [op |-> "toggleDay", idx |-> idx, was |-> expandedDay]
  /\ UNCHANGED imageVars
  /\ UNCHANGED <<localStorage, plan, currentStep, expandedMeal, loading, apiKey, elevenKey,
                 dailyQuote, quoteLoading, ttsLoading, audioBlobUrl, isPlaying, formData,
                 planPending, quotePending, ttsPending, today, autoQuotes>>

\* the click on the header of the meal panel meal
ToggleMeal(meal) ==
  /\ mounted /\ PlanShown(plan, currentStep)
  /\ meal \in MealNames
  /\ expandedMeal' = ToggledMeal(expandedMeal, meal)
  /\ mounted' = StillMounted(plan, currentStep, expandedDay, expandedMeal')
  /\ out' = [op |-> "toggleMeal", meal |-> meal, was |-> expandedMeal]
  /\ UNCHANGED imageVars
  /\ UNCHANGED <<localStorage, plan, currentStep, expandedDay, loading, apiKey, elevenKey,
                 dailyQuote, quoteLoading, ttsLoading, audioBlobUrl, isPlaying, formData,
                 planPending, quotePending, ttsPending, today, autoQuotes>>

\* the Export as PDF button: an exception in the handler saves nothing and
\* leaves the tree mounted
ExportPDF ==
  /\ mounted /\ PlanShown(plan, currentStep)
  /\ out' = IF ExportThrows(plan)
            THEN [op |-> "exportPDF", saved |-> FALSE, lines |-> <<>>]
            ELSE [op |-> "exportPDF", saved |-> TRUE,
                  lines |-> ExportDoc(plan, formData.name, today)]
  /\ UNCHANGED imageVars
  /\ UNCHANGED <<localStorage, plan, currentStep, expandedDay, expandedMeal, loading,
                 apiKey, elevenKey, dailyQuote, quoteLoading, ttsLoading, audioBlobUrl,
                 isPlaying, formData, mounted, planPending, quotePending, ttsPending,
                 today, autoQuotes>>


\* generateDailyQuote up to its await, from the "New Quote" button (disabled
\* while quoteLoading or without a key)
ClickNewQuote ==
  /\ mounted
  /\ ~quoteLoading /\ apiKey # ""
  /\ quotePending < MaxPending
  /\ quoteLoading' = TRUE
  /\ quotePending' = quotePending + 1
  /\ out' = Quiet
  /\ UNCHANGED imageVars
  /\ UNCHANGED <<localStorage, plan, currentStep, expandedDay, expandedMeal, loading,
                 apiKey, elevenKey, dailyQuote, ttsLoading, audioBlobUrl, isPlaying,
                 formData, mounted, planPending, ttsPending, today, autoQuotes>>

\* generateDailyQuote from its await on, the request failing: logged only
QuoteRequestFails ==
  /\ quotePending > 0
  /\ quotePending' = quotePending - 1
  /\ quoteLoading' = (IF mounted THEN FALSE ELSE quoteLoading)
  /\ out' = Quiet
  /\ UNCHANGED imageVars
  /\ UNCHANGED <<localStorage, plan, currentStep, expandedDay, expandedMeal, loading,
                 apiKey, elevenKey, dailyQuote, ttsLoading, audioBlobUrl, isPlaying,
                 formData, mounted, planPending, ttsPending, today, autoQuotes>>

\* text?.trim() || "Stay consistent!"
QuoteOf(text) == IF text = "" THEN FallbackQuote ELSE text

\* generateDailyQuote from its await on, the oracle answering with text
QuoteResponse(text) ==
  /\ quotePending > 0
  /\ quotePending' = quotePending - 1
  /\ dailyQuote' = (IF mounted THEN QuoteOf(text) ELSE dailyQuote)
  /\ localStorage' = [localStorage EXCEPT !.daily_quote = QuoteOf(text),
                                          !.daily_quote_date = today]
  /\ quoteLoading' = (IF mounted THEN FALSE ELSE quoteLoading)
  /\ out' = Quiet
  /\ UNCHANGED imageVars
  /\ UNCHANGED <<plan, currentStep, expandedDay, expandedMeal, loading, apiKey, elevenKey,
                 ttsLoading, audioBlobUrl, isPlaying, formData, mounted, planPending,
                 ttsPending, today, autoQuotes>>

\* midnight passes
NextDay ==
  /\ today < MaxDay
  /\ today' = today + 1
  /\ autoQuotes' = 0
  /\ out' = Quiet
  /\ UNCHANGED imageVars
  /\ UNCHANGED <<localStorage, plan, currentStep, expandedDay, expandedMeal, loading,
                 apiKey, elevenKey, dailyQuote, quoteLoading, ttsLoading, audioBlobUrl,
                 isPlaying, formData, mounted, planPending, quotePending, ttsPending>>

\* the text speakSection reads for a section
SectionText(p, section) ==
  IF section = "workout"
  THEN OrElse(GetOpt(GetOpt(p, "workoutPlan"), "overview"), Str("Workout details."))
  ELSE OrElse(GetOpt(GetOpt(p, "dietPlan"), "overview"), Str("Diet details."))

\* speakSection up to its await: the "Read Workout" / "Read Diet" buttons of
\* the plan view, disabled while ttsLoading
SpeakSection(section) ==
  /\ mounted /\ PlanShown(plan, currentStep)
  /\ ~ttsLoading
  /\ IF elevenKey # ""
     THEN /\ Len(ttsPending) < MaxPending
          /\ ttsLoading' = TRUE
          /\ ttsPending' = Append(ttsPending, SectionText(plan, section))
          /\ out' = [op |-> "speakSection", native |-> FALSE,
                     text |-> SectionText(plan, section)]
          /\ UNCHANGED isPlaying
     ELSE /\ isPlaying' = TRUE
          /\ out' = [op |-> "speakSection", native |-> TRUE,
                     text |-> SectionText(plan, section)]
          /\ UNCHANGED <<ttsLoading, ttsPending>>
  /\ UNCHANGED imageVars
  /\ UNCHANGED <<localStorage, plan, currentStep, expandedDay, expandedMeal, loading,
                 apiKey, elevenKey, dailyQuote, quoteLoading, audioBlobUrl, formData,
                 mounted, planPending, quotePending, today, autoQuotes>>

\* the remote path of speakSection falls through to the browser's speech
\* synthesizer exactly when fetch or res.blob() throws
FallsBack(outcome) == outcome = "network_error"

\* speakSection from its await on: the request i ends with outcome. A
\* response of any status is handed to the audio element and played.
SpeechResponse(i, outcome) ==
  /\ i \in 1..Len(ttsPending)
  /\ ttsPending' = [j \in 1..(Len(ttsPending) - 1) |->
                      IF j < i THEN ttsPending[j] ELSE ttsPending[j + 1]]
  /\ ttsLoading' = (IF mounted THEN FALSE ELSE ttsLoading)
  /\ audioBlobUrl' = (IF mounted /\ ~FallsBack(outcome) THEN outcome ELSE audioBlobUrl)
  /\ isPlaying' = (IF mounted THEN TRUE ELSE isPlaying)
  /\ out' = [op |-> "speechResponse", outcome |-> outcome, text |-> ttsPending[i],
             native |-> FallsBack(outcome), alert |-> ""]
  /\ UNCHANGED imageVars
  /\ UNCHANGED <<localStorage, plan, currentStep, expandedDay, expandedMeal, loading,
                 apiKey, elevenKey, dailyQuote, quoteLoading, formData, mounted,
                 planPending, quotePending, today, autoQuotes>>

\* utter.onend, and onPause / onEnded of the audio element
PlaybackEnds ==
  /\ mounted /\ isPlaying
  /\ isPlaying' = FALSE
  /\ out' = Quiet
  /\ UNCHANGED imageVars
  /\ UNCHANGED <<localStorage, plan, currentStep, expandedDay, expandedMeal, loading,
                 apiKey, elevenKey, dailyQuote, quoteLoading, ttsLoading, audioBlobUrl,
                 formData, mounted, planPending, quotePending, ttsPending, today,
                 autoQuotes>>

(***************************************************************************)
(* generateImage and the image modal                                       *)
(***************************************************************************)
\* the parts of an image response: text parts and parts with inlineData
TextPart(t) == Obj(<<<<"text", Str(t)>>>>)
InlinePart(data) == Obj(<<<<"inlineData", Obj(<<<<"data", Str(data)>>>>)>>>>)

\* what the image oracle may answer: no parts, text only, text before two
\* images, one image
ImageResponses ==
  { <<>>,
    <<TextPart("Here is your image")>>,
    <<TextPart("Here is your image"), InlinePart("iVBOR"), InlinePart("R0lGO")>>,
    <<InlinePart("R0lGO")>> }

\* the template literal data:image/png;base64,${part.inlineData.data}
DataUrlOf(part) == Str("data:image/png;base64," \o Get(Get(part, "inlineData"), "data").s)

\* a loop that keeps the last part with inlineData
RECURSIVE LastDataUrl(_)
LastDataUrl(parts) ==
  IF parts = <<>> THEN Null
  ELSE IF Truthy(Get(parts[Len(parts)], "inlineData")) THEN DataUrlOf(parts[Len(parts)])
  ELSE LastDataUrl(SubSeq(parts, 1, Len(parts) - 1))

\* let dataUrl = null; for (const part of parts) if (part.inlineData) { dataUrl = ..; break; }
RECURSIVE FirstDataUrl(_)
FirstDataUrl(parts) ==
  IF parts = <<>> THEN Null
  ELSE IF Truthy(Get(Head(parts), "inlineData")) THEN DataUrlOf(Head(parts))
  ELSE FirstDataUrl(Tail(parts))

\* the camera buttons on the page: one per exercise row of the expanded day
\* and one per item row of the expanded meal, each with the name it passes
ExerciseButtons ==
  IF expandedDay \in DayIndices
  THEN LET exs == Get(Get(Get(plan, "workoutPlan"), "days").a[expandedDay + 1], "exercises").a
       IN  { [name |-> Get(exs[i], "name"), type |-> "exercise"] : i \in 1..Len(exs) }
  ELSE {}

FoodButtons ==
  LET es == Entries(Get(Get(plan, "dietPlan"), "meals"))
  IN  UNION { { [name |-> es[i][2].a[j], type |-> "food"] : j \in 1..Len(es[i][2].a) } :
              i \in { k \in 1..Len(es) : MealExpanded(expandedMeal, es[k][1]) } }

ImageButtons ==
  IF mounted /\ PlanShown(plan, currentStep) THEN ExerciseButtons \cup FoodButtons ELSE {}

\* a slot written only while it is empty
KeepSelectedImage(cur, img) == IF Truthy(cur) THEN cur ELSE img

\* setSelectedImage({ name, dataUrl }): the one slot takes the new image
SetSelectedImage(cur, img) == img

\* generateImage up to its await: the click on a camera button. The buttons
\* carry no disabled attribute; the overlay shown while imageLoading covers the
\* page for the pointer but the button clicked keeps the focus, so the
\* keyboard activates it again while a request is outstanding
GenerateImage(b) ==
  /\ b \in ImageButtons
  /\ IF NoCredential(apiKey)
     THEN /\ out' = [op |-> "generateImage", alert |-> "Enter your Gemini API key first!"]
          /\ UNCHANGED <<imageLoading, imagePending, imageIssued>>
     ELSE /\ imageIssued < MaxImages
          /\ imageLoading' = TRUE
          /\ imageIssued' = imageIssued + 1
          /\ imagePending' = Append(imagePending, [name |-> b.name, no |-> imageIssued + 1])
          /\ out' = [op |-> "generateImage", alert |-> ""]
  /\ UNCHANGED selectedImage
  /\ UNCHANGED <<localStorage, plan, currentStep, expandedDay, expandedMeal, loading,
                 apiKey, elevenKey, dailyQuote, quoteLoading, ttsLoading, audioBlobUrl,
                 isPlaying, formData, mounted, planPending, quotePending, ttsPending,
                 today, autoQuotes>>

\* the request at position i leaves the outstanding ones
Answered(i) == SubSeq(imagePending, 1, i - 1) \o SubSeq(imagePending, i + 1, Len(imagePending))

\* finally { setImageLoading(false) }
ImageSettled ==
  /\ imageLoading' = (IF mounted THEN FALSE ELSE imageLoading)
  /\ UNCHANGED imageIssued
  /\ UNCHANGED <<localStorage, plan, currentStep, expandedDay, expandedMeal, loading,
                 apiKey, elevenKey, dailyQuote, quoteLoading, ttsLoading, audioBlobUrl,
                 isPlaying, formData, mounted, planPending, quotePending, ttsPending,
                 today, autoQuotes>>

\* generateImage from its await on, the oracle answering request i with parts
ImageResponse(i, parts) ==
  /\ i \in 1..Len(imagePending)
  /\ imagePending' = Answered(i)
  /\ IF Truthy(FirstDataUrl(parts))
     THEN /\ selectedImage' =
               (IF mounted
                THEN SetSelectedImage(selectedImage, [name |-> imagePending[i].name,
                                                      dataUrl |-> FirstDataUrl(parts)])
                ELSE selectedImage)
          /\ out' = [op |-> "imageResponse", no |-> imagePending[i].no,
                     name |-> imagePending[i].name, parts |-> parts,
                     was |-> selectedImage, alert |-> ""]
     ELSE /\ UNCHANGED selectedImage
          /\ out' = [op |-> "imageResponse", no |-> imagePending[i].no,
                     name |-> imagePending[i].name, parts |-> parts,
                     was |-> selectedImage,
                     alert |-> "Image generation failed: No image data returned."]
  /\ ImageSettled

\* generateImage from its await on, the request i rejected
ImageRequestFails(i) ==
  /\ i \in 1..Len(imagePending)
  /\ imagePending' = Answered(i)
  /\ UNCHANGED selectedImage
  /\ out' = [op |-> "imageFails", no |-> imagePending[i].no,
             alert |-> "Image generation failed: request rejected"]
  /\ ImageSettled

\* the close button of the image modal, or a click on its backdrop
CloseImage ==
  /\ mounted /\ Truthy(selectedImage)
  /\ selectedImage' = Null
  /\ out' = [op |-> "closeImage"]
  /\ UNCHANGED <<imageLoading, imagePending, imageIssued>>
  /\ UNCHANGED <<localStorage, plan, currentStep, expandedDay, expandedMeal, loading,
                 apiKey, elevenKey, dailyQuote, quoteLoading, ttsLoading, audioBlobUrl,
                 isPlaying, formData, mounted, planPending, quotePending, ttsPending,
                 today, autoQuotes>>

(***************************************************************************)
(* Specifications                                                          *)
(***************************************************************************)
\* the plan component: the form, generatePlan, the plan view and its panels,
\* the export
NextPlan ==
  \/ Reload
  \/ \E v \in FormNames : OnChange("name", v)
  \/ \E v \in FormGoals : OnChange("fitnessGoal", v)
  \/ GeneratePlan
  \/ PlanRequestFails
  \/ \E text \in PlanResponses : PlanResponse(text)
  \/ Regenerate
  \/ \E idx \in 0..3 : ToggleDay(idx)
  \/ \E meal \in {"breakfast", "lunch", "dinner", "snacks", "brunch"} : ToggleMeal(meal)
  \/ ExportPDF

\* the daily quote: the key input with its effect, the quote button, the clock
NextQuote ==
  \/ Reload
  \/ \E k \in ApiKeys : SetApiKey(k)
  \/ SaveKeys
  \/ ClickNewQuote
  \/ QuoteRequestFails
  \/ \E text \in QuoteTexts : QuoteResponse(text)
  \/ NextDay

\* speech: the ElevenLabs key input and speakSection over a displayed plan
NextSpeech ==
  \/ Reload
  \/ \E k \in ElevenKeys : SetElevenKey(k)
  \/ SaveKeys
  \/ Regenerate
  \/ \E section \in {"workout", "diet"} : SpeakSection(section)
  \/ \E i \in 1..MaxPending, outcome \in SpeechOutcomes : SpeechResponse(i, outcome)
  \/ PlaybackEnds

\* images: the key input, the first day panel and the breakfast panel of a
\* displayed plan, their camera buttons and the image modal
NextImage ==
  \/ Reload
  \/ \E k \in ApiKeys : SetApiKey(k)
  \/ \E idx \in 0..0 : ToggleDay(idx)
  \/ \E meal \in {"breakfast"} : ToggleMeal(meal)
  \/ \E b \in ImageButtons : GenerateImage(b)
  \/ \E i \in 1..MaxImages, parts \in ImageResponses : ImageResponse(i, parts)
  \/ \E i \in 1..MaxImages : ImageRequestFails(i)
  \/ CloseImage

\* the whole component
Next == NextPlan \/ NextQuote \/ NextSpeech \/ NextImage

SpecPlan == Init /\ [][NextPlan]_vars
SpecQuote == Init /\ [][NextQuote]_vars
SpecSpeech == Init /\ [][NextSpeech]_vars
SpecImage == Init /\ [][NextImage]_vars
Spec == Init /\ [][Next]_vars

(***************************************************************************)
(* Properties of generatePlan                                              *)
(***************************************************************************)
\* C1: generatePlan invoked without a text-generation credential (apiKey
\* empty), whatever the form record, issues no request to the text oracle and
\* leaves plan, the cached plan, the view step and the loading flag unchanged.
C1_NoKeyNoRequest ==
  [][(out'.op = "generatePlan" /\ apiKey = "") =>
       /\ planPending' = planPending
       /\ quotePending' = quotePending
       /\ plan' = plan
       /\ localStorage' = localStorage
       /\ currentStep' = currentStep
       /\ loading' = loading
       /\ out'.alert # ""]_vars

\* generatePlan has run without a key, over a form the user has filled in
C1_Witness ==
  /\ out.op = "generatePlan" /\ out.alert = "Enter your Gemini API key first!"
  /\ apiKey = "" /\ formData.name = "Alex" /\ formData.fitnessGoal = "muscle_gain"
  /\ planPending = 0 /\ ~loading

\* JSON.parse throws on what generatePlan hands it for the response text
InvalidJson(text) == ~JSONParse(Clean(Trim(text))).ok

\* C2: when the request fails in transport or the oracle's text is not JSON,
\* generatePlan alerts the failure and leaves the plan, the item fitness_plan
\* and the view step as they were; the answered request is not issued again,
\* and what the page displays (plan view or form) stays.
C2_FailureKeepsState ==
  [][(out'.op = "planResponse" /\ (out'.transport \/ InvalidJson(out'.resp))) =>
       /\ out'.alert # ""
       /\ plan' = plan
       /\ localStorage'.fitness_plan = localStorage.fitness_plan
       /\ currentStep' = currentStep
       /\ planPending' = planPending - 1
       /\ PlanShown(plan', currentStep') = PlanShown(plan, currentStep)
       /\ mounted' = mounted]_vars

\* a response that is not JSON has been answered with the alert
C2_Witness ==
  /\ out.op = "planResponse" /\ ~out.transport /\ out.resp # <<>>
  /\ InvalidJson(out.resp)
  /\ out.alert = "Failed to generate plan"
  /\ planPending = 0 /\ currentStep = "form" /\ ~localStorage.fitness_plan.has

\* v has the fields the plan view and the export read
HasPlanShape(v) ==
  /\ IsObj(v)
  /\ IsObj(Get(v, "workoutPlan"))
  /\ IsArr(Get(Get(v, "workoutPlan"), "days"))
  /\ \A i \in 1..Len(Get(Get(v, "workoutPlan"), "days").a) :
        IsArr(Get(Get(Get(v, "workoutPlan"), "days").a[i], "exercises"))
  /\ IsObj(Get(v, "dietPlan"))
  /\ IsObj(Get(Get(v, "dietPlan"), "meals"))
  /\ IsArr(Get(v, "lifestyleTips"))

\* the response text is JSON for an object without one of these fields
MissingField(text) ==
  /\ ~InvalidJson(text)
  /\ IsObj(JSONParse(Clean(Trim(text))).v)
  /\ ~HasPlanShape(JSONParse(Clean(Trim(text))).v)

\* C3: when the oracle's text is JSON without an expected field of the plan
\* (no workoutPlan, no dietPlan.meals, ...), generatePlan alerts the failure,
\* the plan, the persisted plan and the view step stay as they were, and the
\* page stays mounted, also when it is loaded again from the storage.
C3_MissingFieldReported ==
  [][/\ (out'.op = "planResponse" /\ ~out'.transport /\ MissingField(out'.resp)) =>
          /\ out'.alert # ""
          /\ plan' = plan
          /\ localStorage'.fitness_plan = localStorage.fitness_plan
          /\ currentStep' = currentStep
          /\ mounted'
     /\ out'.op = "reload" => mounted']_vars

\* C4: when the oracle's text parses, generatePlan replaces the plan by the
\* parsed value, writes its serialization to the item fitness_plan and moves
\* the view step from "form" to "plan", all in the one handler run, and the
\* loading flag is clear afterwards.
C4_SuccessStoresPlan ==
  [][(out'.op = "planResponse" /\ ~out'.transport /\ ~InvalidJson(out'.resp)) =>
       /\ plan' = JSONParse(Clean(Trim(out'.resp))).v
       /\ localStorage'.fitness_plan = Item(Stringify(plan'))
       /\ currentStep = "form" /\ currentStep' = "plan"
       /\ ~loading'
       /\ out'.alert = ""]_vars

\* a parsed plan has been stored and is displayed
C4_Witness ==
  /\ out.op = "planResponse" /\ out.alert = "" /\ out.resp = Spaced(Stringify(PlanWide))
  /\ plan = PlanWide
  /\ localStorage.fitness_plan = Item(Stringify(PlanWide))
  /\ PlanShown(plan, currentStep) /\ mounted /\ ~loading

\* C5: for every JSON text T, T wrapped in a triple-backtick fence, with or
\* without the language tag json and with whitespace around it, parses after
\* the fence-stripping step to the value T parses to.
C5_FenceStripped ==
  \A f \in FencedCases :
    (out.op = "planResponse" /\ ~out.transport /\ out.resp = f.text) =>
      JSONParse(Clean(Trim(out.resp))) = JSONParse(f.body)

(***************************************************************************)
(* Properties of exportPDF                                                 *)
(***************************************************************************)
RECURSIVE ExerciseNames(_)
\* the name of every exercise of every day, in the plan's order
ExerciseNames(days) ==
  IF days = <<>> THEN <<>>
  ELSE [i \in 1..Len(Get(Head(days), "exercises").a) |->
          Get(Get(Head(days), "exercises").a[i], "name")]
         \o ExerciseNames(Tail(days))

RECURSIVE MealItems(_)
\* every food item of every meal slot, in the plan's order
MealItems(entries) ==
  IF entries = <<>> THEN <<>>
  ELSE Head(entries)[2].a \o MealItems(Tail(entries))

\* a line of the document that lists an exercise or a food item
IsItemLine(l) == l.txt[1] = Str("* ")

\* what the item lines of a document list, in the document's order
ListedItems(lines) ==
  LET items == SelectSeq(lines, IsItemLine) IN
  [i \in 1..Len(items) |-> items[i].txt[2]]

\* C6: the document exportPDF saves has exactly one line per exercise of
\* every day and one line per food item of every meal slot of the plan, in
\* the plan's order, none omitted (slots other than breakfast, lunch, dinner
\* and snacks and items wider than the page included).
C6_OneLinePerItem ==
  (out.op = "exportPDF" /\ out.saved) =>
    ListedItems(out.lines) =
      ExerciseNames(Get(Get(plan, "workoutPlan"), "days").a)
        \o MealItems(Entries(Get(Get(plan, "dietPlan"), "meals")))

(***************************************************************************)
(* Properties of the panels                                                *)
(***************************************************************************)
\* C7: a click on the day panel idx leaves exactly that panel expanded if it
\* was collapsed and no day panel expanded if it was expanded, and leaves the
\* expanded meal alone; the same for the meal panels; so at most one panel of
\* each kind is expanded.
C7_OnePanelOpen ==
  [][/\ out'.op = "toggleDay" =>
          /\ expandedMeal' = expandedMeal
          /\ \A a \in DayIndices :
                DayExpanded(expandedDay', a)
                  <=> (a = out'.idx /\ ~DayExpanded(expandedDay, a))
          /\ Cardinality({a \in DayIndices : DayExpanded(expandedDay', a)}) <= 1
     /\ out'.op = "toggleMeal" =>
          /\ expandedDay' = expandedDay
          /\ \A a \in MealNames :
                MealExpanded(expandedMeal', a)
                  <=> (a = out'.meal /\ ~MealExpanded(expandedMeal, a))
          /\ Cardinality({a \in MealNames : MealExpanded(expandedMeal', a)}) <= 1]_vars

\* the second day panel has been clicked while the first was expanded and a
\* meal panel was open
C7_Witness ==
  /\ out.op = "toggleDay" /\ out.was = 0 /\ out.idx = 1
  /\ DayExpanded(expandedDay, 1) /\ ~DayExpanded(expandedDay, 0)
  /\ MealExpanded(expandedMeal, "brunch")

(***************************************************************************)
(* Properties of the cached plan                                           *)
(***************************************************************************)
\* C8: loading the page again over the storage generatePlan has written
\* gives an in-memory plan equal to the plan that was persisted, and starts
\* in the view step "plan".
C8_ReloadRoundTrip ==
  [][(out'.op = "reload" /\ IsObj(plan) /\ localStorage.fitness_plan.has) =>
       /\ localStorage.fitness_plan = Item(Stringify(plan))
       /\ plan' = plan
       /\ currentStep' = "plan"]_vars

\* the page has been loaded again over a plan generatePlan persisted
C8_Witness ==
  /\ out.op = "reload"
  /\ plan = PlanWide /\ currentStep = "plan" /\ mounted
  /\ localStorage.fitness_plan = Item(Stringify(PlanWide))

(***************************************************************************)
(* Properties of the daily quote                                           *)
(***************************************************************************)
\* C9: within one calendar day, over page loads, edits of the key and the
\* outcomes of the requests, the effect issues at most one quote request of
\* its own, and none while there is no text-generation credential.
C9_OneAutoQuotePerDay ==
  [][autoQuotes' > autoQuotes => (autoQuotes = 0 /\ apiKey' # "")]_vars

(***************************************************************************)
(* Properties of speakSection                                              *)
(***************************************************************************)
\* C10: with a remote speech credential, a remote request that ends in an
\* error, a network failure or an error response of the service, makes
\* speakSection speak the same text with the native synthesizer, and shows
\* the user no error.
C10_ErrorFallsBack ==
  (out.op = "speechResponse" /\ out.outcome # "audio") =>
    (out.native /\ out.alert = "")

\* C13: in every reachable state at most one plan request is outstanding, and
\* while one is outstanding the loading indicator is on
C13_OnePlanRequest ==
  /\ planPending <= 1
  /\ planPending = 1 => loading

\* a plan request is outstanding after a click on the Generate button
C13_Witness ==
  /\ planPending = 1
  /\ loading
  /\ out.op = "generatePlan"
  /\ out.alert = ""

\* C15: in every reachable state the step is "plan" exactly when the plan in
\* memory is not null
C15_StepMatchesPlan == (currentStep = "plan") <=> (plan # Null)

\* a plan comes to be displayed by this step
PlanAppears ==
  /\ ~PlanShown(plan, currentStep)
  /\ PlanShown(plan', currentStep')
  /\ mounted'

\* C14: whenever a plan comes to be displayed, no day panel and no meal panel
\* of it is expanded
C14_AllCollapsedAtDisplay ==
  [][PlanAppears =>
       /\ \A idx \in DayIndices' : ~DayExpanded(expandedDay', idx)
       /\ \A meal \in MealNames' : ~MealExpanded(expandedMeal', meal)]_vars

(***************************************************************************)
(* Properties of generateImage                                             *)
(***************************************************************************)
\* this step is the answer to an image request, applied to a mounted page
ImageAnswered ==
  /\ mounted
  /\ Len(imagePending') = Len(imagePending) - 1
  /\ out'.op = "imageResponse"

\* the positions of the parts that carry an inlined payload
InlinedAt(parts) == { j \in 1..Len(parts) : Truthy(Get(parts[j], "inlineData")) }

FirstInlined(parts) == CHOOSE j \in InlinedAt(parts) : \A k \in InlinedAt(parts) : j <= k

\* the name passed to the call of generateImage that issued request number no
RequestedName(no) ==
  LET i == CHOOSE j \in 1..Len(imagePending) : imagePending[j].no = no
  IN  imagePending[i].name

\* C11: results are applied in the order of completion. In every state that a
\* successful answer to an image request has just produced, the one slot
\* shows the image of that answer under the name of its request, whichever
\* requests were issued or answered before it
C11_LastCompletedWins ==
  (mounted /\ out.op = "imageResponse" /\ out.alert = "") =>
    selectedImage = [name |-> out.name,
                     dataUrl |-> DataUrlOf(out.parts[FirstInlined(out.parts)])]

\* two requests were outstanding at once; the second one issued was answered
\* first and displayed, then the answer to the first one issued replaced it
C11_Witness ==
  /\ out.op = "imageResponse"
  /\ out.alert = ""
  /\ out.no = 1
  /\ imageIssued = 2
  /\ imagePending = <<>>
  /\ out.was # Null
  /\ out.was.name # out.name
  /\ selectedImage.name = out.name

\* C12: a response without an inlined payload is reported and leaves the
\* displayed image as it was; a response with one makes its first inlined
\* payload the displayed image, paired with the name requested
C12_FirstPayloadOrFailure ==
  [][ImageAnswered =>
       IF InlinedAt(out'.parts) = {}
       THEN /\ out'.alert = "Image generation failed: No image data returned."
            /\ selectedImage' = selectedImage
       ELSE /\ out'.alert = ""
            /\ selectedImage' = [name |-> RequestedName(out'.no),
                                 dataUrl |-> DataUrlOf(out'.parts[FirstInlined(out'.parts)])]]_vars

\* a response without a payload has been reported while the modal shows the
\* first of the two payloads of an earlier response
C12_Witness ==
  /\ out.op = "imageResponse"
  /\ InlinedAt(out.parts) = {}
  /\ out.alert # ""
  /\ selectedImage # Null
  /\ selectedImage.dataUrl = Str("data:image/png;base64,iVBOR")

\* C16: in every reachable state the image loading indicator is on exactly
\* when at least one image request is outstanding
C16_LoadingWhileOutstanding == mounted => (imageLoading <=> imagePending # <<>>)

====
